---- MODULE Spec2Model ----
(***************************************************************************)
(* Invoice payment portal: PinVerification ("/"), Invoice ("/invoice") and *)
(* PaymentConfirmation ("/confirmation"), with the RTK Query endpoints     *)
(* getInvoice and schedulePayment.  One browser session against one        *)
(* backend invoice.  Money is held in cents; the API's decimal strings are *)
(* pairs <<whole, hundredths>>.                                            *)
(***************************************************************************)
EXTENDS Integers, Sequences, FiniteSets, TLC

(* ------------------------------ bounds -------------------------------- *)

\* number of component mounts (page loads and navigations) in one run
MaxMounts == 2

\* update requests that may be outstanding at once
MaxInFlight == 2

(* --------------------------- value universes --------------------------- *)

Digits == {"0", "1", "2", "3", "4", "5", "6", "7", "8", "9"}

PinGood == <<"1", "2", "3", "4", "5", "6">>
PinWrong == <<"0", "0", "0", "0", "0", "0">>
PinMalformed == <<"1", "2", "a", "b">>
NoPin == <<>>

\* what fits in the PIN input (maxLength 6)
TypedPins == {PinGood, PinWrong, PinMalformed, NoPin}

\* invoiceId query parameter; "" is an absent parameter
KnownId == "1"
KnownHash == "h1"
UnknownId == "9"
UrlIds == {KnownId, UnknownId, ""}

\* dates as day numbers; 0 is a null date
DueDate == 2
Today == 2

NoInvoice == [none |-> TRUE]
NoResult == [none |-> TRUE]
NoState == [paymentResult |-> NoResult, pin |-> NoPin, invoiceId |-> ""]

\* values of the paymentAmount field: never registered, the empty input's ''
\* (which yup casts to NaN), or a typed number in cents
Undefined == [kind |-> "undefined"]
EmptyInput == [kind |-> "empty"]
Num(n) == [kind |-> "number", v |-> n]

EmptyForm ==
    [paymentOption |-> "", paymentAmount |-> Undefined,
     paymentMethod |-> "", additionalMessage |-> 0]

(* ------------------------- backend (REST contract) --------------------- *)

\* the pin the backend holds for the invoice
BackendPin == PinGood

\* invoice records the backend may hold when the session starts: a new
\* invoice payable by card or ACH, one paid by card ahead of the due date
\* whose customer has since lost both capabilities, and one scheduled by ACH
InitialInvoices ==
    { [hash_code |-> KnownHash,
       invoice_number |-> "INV-1",
       customer_number |-> "CUST-1",
       invoice_amount |-> <<2500, 0>>,
       cc_service_fee |-> i[1],
       payment_due_date |-> DueDate,
       payment_date |-> i[4],
       payment_method |-> i[3],
       customer_ach_enabled |-> i[2],
       customer_cc_token |-> i[2],
       control_number |-> "",
       status |-> i[5]] :
      i \in {<<<<72, 50>>, 1, "", 0, "Open">>,
             <<<<50, 0>>, 0, "Credit Card", 1, "Pending">>,
             <<<<50, 0>>, 1, "ACH", 3, "Scheduled for payment">>} }

\* parseFloat of a two-decimal string, in cents
ParseFloat(s) == s[1] * 100 + s[2]

(* ------------------------------ PIN entry ------------------------------ *)

\* yup: string().required().matches(/^\d{6}$/)
PinValid(p) == Len(p) = 6 /\ \A i \in 1..Len(p) : p[i] \in Digits

(* ----------------------------- review form ----------------------------- *)

PaymentOptions == {"full", "partial", "dueDate"}
PaymentMethods == {"Credit Card", "ACH", "Check"}

\* amounts the user can leave in the partial-amount input
TypedAmounts == {EmptyInput, Num(-500), Num(500), Num(250000)}

\* lengths the textarea can hold (maxLength 100)
MessageLengths == {0, 100}

\* as AmountValid, without positive()
AmountValidAnySign(option, amount) ==
    /\ amount.kind # "empty"
    /\ option = "partial" => amount.kind = "number"

\* yup.number(): '' casts to NaN and fails the type check in either branch
\* of the when(); required() and positive() apply under 'partial' only
AmountValid(option, amount) ==
    /\ amount.kind # "empty"
    /\ option = "partial" => (amount.kind = "number" /\ amount.v > 0)

Fields == {"paymentOption", "paymentAmount", "paymentMethod", "additionalMessage"}

\* one field against the yup schema
FieldValid(name, f) ==
    CASE name = "paymentOption" -> f.paymentOption \in PaymentOptions
      [] name = "paymentAmount" -> AmountValid(f.paymentOption, f.paymentAmount)
      [] name = "paymentMethod" -> f.paymentMethod \in PaymentMethods
      [] OTHER -> f.additionalMessage <= 100

\* the fields the resolver reports for the form values
SchemaErrors(f) == {name \in Fields : ~FieldValid(name, f)}

\* status.toLowerCase().includes('scheduled')
IncludesScheduled(status) == status \in {"Scheduled for payment", "SCHEDULED"}

hasExistingPayment(invoice) ==
    /\ invoice # NoInvoice
    /\ invoice.payment_method # ""
    /\ invoice.payment_date # 0

\* as PreFill, setting the method and leaving the option alone
PreFillMethodOnly(f, invoice) ==
    IF hasExistingPayment(invoice)
    THEN [f EXCEPT
            !.paymentMethod =
                IF invoice.payment_method \in PaymentMethods
                THEN invoice.payment_method ELSE @]
    ELSE f

\* as PreFill, choosing 'dueDate' for every invoice that has a payment
PreFillAlwaysDueDate(f, invoice) ==
    IF hasExistingPayment(invoice)
    THEN [f EXCEPT
            !.paymentOption = "dueDate",
            !.paymentMethod =
                IF invoice.payment_method \in PaymentMethods
                THEN invoice.payment_method ELSE @]
    ELSE f

\* the effect that pre-fills the form when invoice data arrives
PreFill(f, invoice) ==
    IF hasExistingPayment(invoice)
    THEN [f EXCEPT
            !.paymentOption =
                IF invoice.payment_date >= invoice.payment_due_date
                   \/ IncludesScheduled(invoice.status)
                THEN "dueDate" ELSE "full",
            !.paymentMethod =
                IF invoice.payment_method \in PaymentMethods
                THEN invoice.payment_method ELSE @]
    ELSE f

\* the disabled attribute of a payment-method radio
MethodDisabled(m, invoice) ==
    \/ m = "Credit Card" /\ invoice.customer_cc_token = 0
    \/ m = "ACH" /\ invoice.customer_ach_enabled = 0

(* ------------------------------ fee quote ------------------------------ *)

\* Total Due in the payment summary
TotalDue(selectedPaymentMethod, invoice) ==
    IF selectedPaymentMethod = "Credit Card"
    THEN ParseFloat(invoice.invoice_amount) + ParseFloat(invoice.cc_service_fee)
    ELSE ParseFloat(invoice.invoice_amount)

MethodLabel(paymentMethod) ==
    IF paymentMethod = "Credit Card" THEN "Credit card on file"
    ELSE IF paymentMethod = "ACH" THEN "ACH on file"
    ELSE "Check"

\* the payment option as the mock processPayment words it
OptionLabel(paymentOption) ==
    IF paymentOption = "full" THEN "Full payment now"
    ELSE IF paymentOption = "partial" THEN "Partial payment now"
    ELSE "Payment on due date"

\* as ProcessingFee, charged whatever the method
ProcessingFeeAnyMethod(paymentMethod, invoice) == ParseFloat(invoice.cc_service_fee)

\* processingFee of schedulePayment
ProcessingFee(paymentMethod, invoice) ==
    IF paymentMethod = "Credit Card" THEN ParseFloat(invoice.cc_service_fee) ELSE 0

\* the PaymentResponse schedulePayment builds from the updated invoice
PaymentResponse(paymentMethod, paymentDate, invoice) ==
    [invoiceNumber |-> invoice.invoice_number,
     customer |-> invoice.customer_number,
     paymentOption |-> "Payment on scheduled date",
     paymentMethod |-> MethodLabel(paymentMethod),
     paymentAmount |-> ParseFloat(invoice.invoice_amount),
     processingFee |-> ProcessingFee(paymentMethod, invoice),
     totalAmount |-> ParseFloat(invoice.invoice_amount)
                     + ProcessingFee(paymentMethod, invoice),
     transactionDate |-> paymentDate,
     transactionId |-> invoice.control_number,
     success |-> TRUE]

(* ------------------------- backend responses --------------------------- *)

\* status the backend gives a request carrying (invoiceId, pin)
BackendStatus(invoiceId, pin) ==
    IF invoiceId \notin {KnownId, KnownHash} THEN "404"
    ELSE IF pin # BackendPin THEN "401"
    ELSE "200"

\* what fetchBaseQuery may hand back for GET /invoices/{id}?pin=
GetOutcomes(invoiceId, pin) == {BackendStatus(invoiceId, pin), "FETCH_ERROR"}

\* what fetchBaseQuery may hand back for PUT /invoices/{id}
PutOutcomes(invoiceId, pin) == {BackendStatus(invoiceId, pin), "500", "FETCH_ERROR"}

\* the body of the PUT schedulePayment sends for request r
PutBody(r) ==
    [pin |-> r.pin,
     payment_method |-> r.paymentMethod,
     payment_date |-> r.paymentDate,
     status |-> "Scheduled for payment"]

\* the record after PUT {pin, payment_method, payment_date, status}
Updated(invoice, paymentMethod, paymentDate) ==
    [invoice EXCEPT !.payment_method = paymentMethod,
                    !.payment_date = paymentDate,
                    !.status = "Scheduled for payment",
                    !.control_number = "CN-1"]

(* -------------------------------- state -------------------------------- *)

VARIABLES
    route,        \* "unloaded", "pin", "invoice" or "confirmation"
    search,       \* the URL's query parameters invoiceId and pin
    locState,     \* location.state of the current history entry
    inst,         \* number of Invoice components mounted so far
    query,        \* useGetInvoiceQuery of the mounted Invoice component
    getInFlight,  \* getInvoice requests not yet answered
    form,         \* react-hook-form values of the mounted Invoice component
    errors,       \* formState.errors of the review form
    isSubmitted,  \* formState.isSubmitted of the review form
    updInFlight,  \* schedulePayment requests not yet answered
    mutation,     \* useSchedulePaymentMutation of the mounted Invoice component
    pinError,     \* errors.pin of the PIN form
    db,           \* the invoice record the backend holds
    answered,     \* history: the (invoiceId, pin) a GET was answered 200 for
    lastPut,      \* history: the latest answer to a PUT and whose it was
    backEntry     \* the PIN screen under the current entry of the history stack

vars == <<route, search, locState, inst, query, getInFlight, form, errors,
          isSubmitted, updInFlight, mutation, pinError, db, answered, lastPut,
          backEntry>>

FreshQuery ==
    [data |-> NoInvoice, error |-> "", isFetching |-> TRUE, settled |-> FALSE]

IdleQuery ==
    [data |-> NoInvoice, error |-> "", isFetching |-> FALSE, settled |-> FALSE]

Uninitialized == [status |-> "uninitialized", error |-> ""]
Pending == [status |-> "pending", error |-> ""]
NoPut == [inst |-> 0, outcome |-> ""]

\* no PIN screen under the current history entry
NoEntry == [none |-> TRUE]

\* isLoading of the query hook: first load, no data yet
isLoading == query.isFetching /\ ~query.settled /\ query.data = NoInvoice

isVerified == query.data # NoInvoice

\* isLoading of the mutation hook of the mounted Invoice component
isProcessing == mutation.status = "pending"

\* which of its views the Invoice component returns
View ==
    IF isLoading THEN "loading"
    ELSE IF query.error # "" \/ query.data = NoInvoice THEN "error"
    ELSE IF ~isVerified /\ ~isLoading THEN "failed"
    ELSE IF ~isVerified THEN "verifying"
    ELSE "form"

\* the elements on screen
Rendered ==
    CASE route = "pin" ->
           {"pin", "verifyPin"} \cup (IF pinError THEN {"pinError"} ELSE {})
      [] route = "invoice" /\ View = "form" ->
           {"invoiceDetails", "totalDue", "paymentOption"}
           \cup (IF form.paymentOption = "partial" THEN {"paymentAmount"} ELSE {})
           \cup (IF form.paymentOption # ""
                 THEN {"paymentMethod", "additionalMessage"} ELSE {})
           \cup (IF form.paymentMethod # "" THEN {"submit"} ELSE {})
           \cup (IF "paymentAmount" \in errors /\ form.paymentOption = "partial"
                 THEN {"paymentAmountError"} ELSE {})
      [] route = "invoice" /\ View = "loading" -> {"spinner"}
      [] route = "invoice" -> {"accessError", "goBack"}
      [] route = "confirmation" /\ locState.paymentResult # NoResult ->
           {"paymentSummary", "backToInvoice", "downloadReceipt"}
      [] OTHER -> {}

(* ------------------------------ navigation ----------------------------- *)

\* the function useNavigate() returns: it acts once the component that
\* called useNavigate has mounted, and ignores a call made while that
\* component renders for the first time
navigate(mounted, from, to) == IF mounted THEN to ELSE from

\* the GET /invoices/{invoiceId}?pin={pin} of Invoice component i
GetRequest(i, invoiceId, pin) == [inst |-> i, invoiceId |-> invoiceId, pin |-> pin]

\* /invoice?invoiceId=..&pin=..: a new Invoice component mounts; its query
\* hook starts loading
EnterInvoice(invoiceId, pin) ==
    /\ inst < MaxMounts
    /\ route' = "invoice"
    /\ search' = [invoiceId |-> invoiceId, pin |-> pin]
    /\ locState' = NoState
    /\ inst' = inst + 1
    /\ query' = FreshQuery
    /\ form' = EmptyForm
    /\ errors' = {}
    /\ isSubmitted' = FALSE
    /\ pinError' = FALSE
    /\ mutation' = Uninitialized

\* the PIN screen mounts
EnterPin(invoiceId) ==
    /\ route' = "pin"
    /\ search' = [invoiceId |-> invoiceId, pin |-> NoPin]
    /\ locState' = NoState
    /\ query' = IdleQuery
    /\ form' = EmptyForm
    /\ errors' = {}
    /\ isSubmitted' = FALSE
    /\ pinError' = FALSE
    /\ mutation' = Uninitialized
    /\ UNCHANGED inst

\* the confirmation screen mounts with the given location.state
EnterConfirmation(state) ==
    /\ route' = IF state.paymentResult = NoResult
                THEN navigate(FALSE, "confirmation", "pin")
                ELSE "confirmation"
    /\ search' = [invoiceId |-> "", pin |-> NoPin]
    /\ locState' = state
    /\ query' = IdleQuery
    /\ form' = EmptyForm
    /\ errors' = {}
    /\ isSubmitted' = FALSE
    /\ pinError' = FALSE
    /\ mutation' = Uninitialized
    /\ UNCHANGED inst

Init ==
    /\ route = "unloaded"
    /\ search = [invoiceId |-> "", pin |-> NoPin]
    /\ locState = NoState
    /\ inst = 0
    /\ query = IdleQuery
    /\ getInFlight = {}
    /\ form = EmptyForm
    /\ errors = {}
    /\ isSubmitted = FALSE
    /\ updInFlight = {}
    /\ mutation = Uninitialized
    /\ pinError = FALSE
    /\ db \in InitialInvoices
    /\ answered = {}
    /\ lastPut = NoPut
    /\ backEntry = NoEntry

\* the browser opens the emailed link, or any other URL of the app
LoadPin ==
    /\ route = "unloaded"
    /\ \E invoiceId \in UrlIds : EnterPin(invoiceId)
    /\ UNCHANGED <<getInFlight, updInFlight, db, answered, lastPut, backEntry>>

LoadInvoice ==
    /\ route = "unloaded"
    /\ \E invoiceId \in UrlIds, pin \in TypedPins :
          /\ EnterInvoice(invoiceId, pin)
          /\ getInFlight' = getInFlight \cup {GetRequest(inst + 1, invoiceId, pin)}
    /\ UNCHANGED <<updInFlight, db, answered, lastPut, backEntry>>

\* as LoadConfirmation, with a payment result no request produced
LoadConfirmationForged ==
    /\ route = "unloaded"
    /\ EnterConfirmation([paymentResult |-> PaymentResponse("Check", Today, db),
                          pin |-> NoPin, invoiceId |-> ""])
    /\ UNCHANGED <<getInFlight, updInFlight, db, answered, lastPut, backEntry>>

LoadConfirmation ==
    /\ route = "unloaded"
    /\ EnterConfirmation(NoState)
    /\ UNCHANGED <<getInFlight, updInFlight, db, answered, lastPut, backEntry>>

(* ------------------------------ PIN screen ----------------------------- *)

\* handleSubmit(onSubmit) of PinVerification: the resolver rejects the pin,
\* or onSubmit navigates to the review screen, pushing it on the history
PinSubmit ==
    /\ route = "pin"
    /\ \E p \in TypedPins :
          IF PinValid(p)
          THEN LET invoiceId == IF search.invoiceId = "" THEN "null"
                                ELSE search.invoiceId
               IN /\ EnterInvoice(invoiceId, p)
                  /\ getInFlight' = getInFlight
                                     \cup {GetRequest(inst + 1, invoiceId, p)}
                  /\ backEntry' = [invoiceId |-> search.invoiceId]
          ELSE /\ pinError' = TRUE
               /\ UNCHANGED <<route, search, locState, inst, query, getInFlight,
                              form, errors, isSubmitted, mutation, backEntry>>
    /\ UNCHANGED <<updInFlight, db, answered, lastPut>>

(* ---------------------------- getInvoice query ------------------------- *)

\* as QueryAfter, but a 401 is taken for data
QueryAfterTrusting401(q, outcome, invoice) ==
    IF outcome \in {"200", "401"}
    THEN [data |-> invoice, error |-> "", isFetching |-> FALSE, settled |-> TRUE]
    ELSE [q EXCEPT !.error = outcome, !.isFetching = FALSE, !.settled = TRUE]

\* the query state after a response; data is kept across a failed refetch
QueryAfter(q, outcome, invoice) ==
    IF outcome = "200"
    THEN [data |-> invoice, error |-> "", isFetching |-> FALSE, settled |-> TRUE]
    ELSE [q EXCEPT !.error = outcome, !.isFetching = FALSE, !.settled = TRUE]

\* a getInvoice request is answered; the mounted component that asked for it
\* re-renders and, when the invoice changed, its pre-fill effect runs
GetRespond ==
    \E r \in getInFlight : \E outcome \in GetOutcomes(r.invoiceId, r.pin) :
        /\ getInFlight' = getInFlight \ {r}
        /\ IF route = "invoice" /\ r.inst = inst
           THEN /\ query' = QueryAfter(query, outcome, db)
                /\ form' = IF query'.data # query.data
                           THEN PreFill(form, query'.data) ELSE form
           ELSE UNCHANGED <<query, form>>
        /\ answered' = IF outcome = "200"
                       THEN answered \cup {<<r.invoiceId, r.pin>>} ELSE answered
        /\ UNCHANGED <<route, search, locState, inst, errors, isSubmitted,
                       updInFlight, mutation, pinError, db, lastPut, backEntry>>

\* tags invalidated by a settled mutation: a subscribed, settled query that
\* is not already fetching is fetched again
Refetching == route = "invoice" /\ query.settled /\ ~query.isFetching

(* ----------------------------- review form ----------------------------- *)

\* reValidateMode onChange: after a submit, a changed field is re-validated
Revalidate(name, f) ==
    IF isSubmitted
    THEN (errors \ {name}) \cup (IF FieldValid(name, f) THEN {} ELSE {name})
    ELSE errors

FormShown == route = "invoice" /\ View = "form"

ChangeForm(name, f) ==
    /\ form' = f
    /\ errors' = Revalidate(name, f)
    /\ UNCHANGED <<route, search, locState, inst, query, getInFlight,
                   isSubmitted, updInFlight, mutation, pinError, db, answered,
                   lastPut, backEntry>>

\* a payment-option radio; choosing 'partial' mounts the amount input, which
\* registers with the value '' when it had none
SelectOption ==
    /\ FormShown
    /\ \E o \in PaymentOptions :
          ChangeForm("paymentOption",
                     [form EXCEPT !.paymentOption = o,
                                  !.paymentAmount =
                                      IF o = "partial" /\ @ = Undefined
                                      THEN EmptyInput ELSE @])

TypeAmount ==
    /\ FormShown
    /\ "paymentAmount" \in Rendered
    /\ \E a \in TypedAmounts :
          ChangeForm("paymentAmount", [form EXCEPT !.paymentAmount = a])

\* a payment-method radio that is rendered and not disabled
SelectMethod ==
    /\ FormShown
    /\ "paymentMethod" \in Rendered
    /\ \E m \in PaymentMethods :
          /\ ~MethodDisabled(m, query.data)
          /\ ChangeForm("paymentMethod", [form EXCEPT !.paymentMethod = m])

TypeMessage ==
    /\ FormShown
    /\ "additionalMessage" \in Rendered
    /\ \E n \in MessageLengths :
          ChangeForm("additionalMessage", [form EXCEPT !.additionalMessage = n])

\* as UpdateRequest, but 'dueDate' schedules the payment for a later day
UpdateRequestByOption(f) ==
    [inst |-> inst,
     invoiceId |-> search.invoiceId,
     pin |-> search.pin,
     paymentMethod |-> f.paymentMethod,
     paymentDate |-> IF f.paymentOption = "dueDate" THEN Today + 1 ELSE Today,
     navInvoiceId |-> IF query.data # NoInvoice /\ query.data.hash_code # ""
                      THEN query.data.hash_code ELSE search.invoiceId]

\* as UpdateRequest, but an invoice that has a payment keeps its date
UpdateRequestKeepingDate(f) ==
    [inst |-> inst,
     invoiceId |-> search.invoiceId,
     pin |-> search.pin,
     paymentMethod |-> f.paymentMethod,
     paymentDate |-> IF hasExistingPayment(query.data)
                     THEN query.data.payment_date ELSE Today,
     navInvoiceId |-> IF query.data # NoInvoice /\ query.data.hash_code # ""
                      THEN query.data.hash_code ELSE search.invoiceId]

\* as UpdateRequest, passing no invoice id on to the confirmation
UpdateRequestNoBackRef(f) ==
    [inst |-> inst,
     invoiceId |-> search.invoiceId,
     pin |-> search.pin,
     paymentMethod |-> f.paymentMethod,
     paymentDate |-> Today,
     navInvoiceId |-> ""]

\* the request onSubmit hands to schedulePayment, with the invoice id it
\* will pass on to the confirmation
UpdateRequest(f) ==
    [inst |-> inst,
     invoiceId |-> search.invoiceId,
     pin |-> search.pin,
     paymentMethod |-> f.paymentMethod,
     paymentDate |-> Today,
     navInvoiceId |-> IF query.data # NoInvoice /\ query.data.hash_code # ""
                      THEN query.data.hash_code ELSE search.invoiceId]

\* the form is submitted: by the submit button, which is rendered once a
\* method is chosen and disabled while isProcessing, or by Enter in the
\* amount input.  handleSubmit runs the resolver and calls onSubmit only
\* when it reports no error.
Submit ==
    /\ FormShown
    /\ ~isProcessing
    /\ "submit" \in Rendered \/ "paymentAmount" \in Rendered
    /\ isSubmitted' = TRUE
    /\ errors' = SchemaErrors(form)
    /\ IF SchemaErrors(form) = {}
       THEN /\ Cardinality(updInFlight) < MaxInFlight
            /\ updInFlight' = updInFlight \cup {UpdateRequest(form)}
            /\ mutation' = Pending
       ELSE UNCHANGED <<updInFlight, mutation>>
    /\ UNCHANGED <<route, search, locState, inst, query, getInFlight, form,
                   pinError, db, answered, lastPut, backEntry>>

\* as MutationAfter, but the hook stays pending whatever the answer
MutationAfterPending(outcome) == [status |-> "pending", error |-> ""]

\* as MutationAfter, but a failed request leaves the hook pending
MutationAfterStuck(outcome) ==
    IF outcome = "200"
    THEN [status |-> "fulfilled", error |-> ""]
    ELSE [status |-> "pending", error |-> ""]

\* the mutation hook's state once its request has settled
MutationAfter(outcome) ==
    IF outcome = "200"
    THEN [status |-> "fulfilled", error |-> ""]
    ELSE [status |-> "rejected", error |-> outcome]

\* as AfterAnswer, but a request that failed is sent again
AfterAnswerRetrying(inFlight, r, outcome) ==
    IF outcome = "200" THEN inFlight \ {r} ELSE inFlight

\* the update requests outstanding once r is answered: queryFn hands the
\* data or the error back and sends nothing more
AfterAnswer(inFlight, r, outcome) == inFlight \ {r}

\* schedulePayment settles.  On 200 the backend has stored the update,
\* queryFn builds the PaymentResponse and onSubmit navigates to the
\* confirmation; otherwise onSubmit's catch logs the error.  Either way the
\* 'Invoice' tag is invalidated.
UpdRespond ==
    \E r \in updInFlight : \E outcome \in PutOutcomes(r.invoiceId, r.pin) :
        /\ updInFlight' = AfterAnswer(updInFlight, r, outcome)
        /\ lastPut' = [inst |-> r.inst, outcome |-> outcome]
        /\ answered' = answered
        /\ getInFlight' = IF Refetching
                          THEN getInFlight
                               \cup {GetRequest(inst, search.invoiceId, search.pin)}
                          ELSE getInFlight
        /\ IF outcome = "200"
           THEN /\ db' = Updated(db, r.paymentMethod, r.paymentDate)
                /\ EnterConfirmation(
                       [paymentResult |->
                            PaymentResponse(r.paymentMethod, r.paymentDate, db'),
                        pin |-> r.pin,
                        invoiceId |-> r.navInvoiceId])
                /\ backEntry' = NoEntry
           ELSE /\ mutation' = IF route = "invoice" /\ r.inst = inst
                               THEN MutationAfter(outcome) ELSE mutation
                /\ query' = IF Refetching
                            THEN [query EXCEPT !.isFetching = TRUE] ELSE query
                /\ UNCHANGED <<route, search, locState, inst, form, errors,
                               isSubmitted, pinError, db, backEntry>>

\* Go Back of the access-error view
GoBack ==
    /\ route = "invoice"
    /\ "goBack" \in Rendered
    /\ EnterPin("")
    /\ backEntry' = NoEntry
    /\ UNCHANGED <<getInFlight, updInFlight, db, answered, lastPut>>

\* the browser's Back button on the review screen that the PIN screen
\* pushed: the router shows the PIN screen again, and requests the Invoice
\* component left unanswered stay in flight
BrowserBack ==
    /\ route = "invoice"
    /\ backEntry # NoEntry
    /\ EnterPin(backEntry.invoiceId)
    /\ backEntry' = NoEntry
    /\ UNCHANGED <<getInFlight, updInFlight, db, answered, lastPut>>

(* ----------------------------- confirmation ---------------------------- *)

\* Back to Invoice
BackToInvoice ==
    /\ route = "confirmation"
    /\ "backToInvoice" \in Rendered
    /\ IF locState.invoiceId # "" /\ locState.pin # NoPin
       THEN /\ EnterInvoice(locState.invoiceId, locState.pin)
            /\ getInFlight' = getInFlight
                               \cup {GetRequest(inst + 1, locState.invoiceId,
                                                locState.pin)}
       ELSE /\ EnterPin("")
            /\ UNCHANGED getInFlight
    /\ backEntry' = NoEntry
    /\ UNCHANGED <<updInFlight, db, answered, lastPut>>

Next ==
    \/ LoadPin
    \/ LoadInvoice
    \/ LoadConfirmation
    \/ PinSubmit
    \/ GetRespond
    \/ SelectOption
    \/ TypeAmount
    \/ SelectMethod
    \/ TypeMessage
    \/ Submit
    \/ UpdRespond
    \/ GoBack
    \/ BrowserBack
    \/ BackToInvoice

Spec == Init /\ [][Next]_vars

\* every request is answered in the end, by the backend or by a network
\* error; the user is free to stop at any point
FairSpec == Spec /\ WF_vars(GetRespond) /\ WF_vars(UpdRespond)

(* ============================== properties ============================= *)

\* the invoice and the parts of the payment form
InvoiceElements ==
    {"invoiceDetails", "totalDue", "paymentOption", "paymentAmount",
     "paymentMethod", "additionalMessage", "submit"}

\* cents of a two-decimal amount
Cents(s) == 100 * s[1] + s[2]

\* this step is the failure of update request r
FailedFor(r) ==
    /\ updInFlight' = updInFlight \ {r}
    /\ lastPut'.inst = r.inst
    /\ lastPut'.outcome # "200"

(* C1: the review screen shows the invoice or any part of the payment form
   only if a GET for the (invoiceId, pin) of the URL was answered 200, and
   after a 401 or 404 it shows the access-error view and nothing else. *)
C1_VerifiedOnly ==
    /\ (route = "invoice" /\ Rendered \cap InvoiceElements # {})
         => <<search.invoiceId, search.pin>> \in answered
    /\ (route = "invoice" /\ query.error \in {"401", "404"})
         => Rendered = {"accessError", "goBack"}

\* the known invoice was asked for with a wrong pin and the backend said 401
C1_Witness ==
    /\ route = "invoice"
    /\ search = [invoiceId |-> KnownId, pin |-> PinWrong]
    /\ query.error = "401"
    /\ ~query.isFetching
    /\ Rendered = {"accessError", "goBack"}

(* C2: the confirmation screen is never on display without a payment result
   in location.state: the workflow has moved on to the PIN screen. *)
C2_Claim == ~(route = "confirmation" /\ locState.paymentResult = NoResult)

(* C3: the workflow goes from the PIN screen to the review screen only once
   the backend has answered 200 for that pin, and a 401 for the submitted
   pin arrives with the workflow on the PIN screen, the error shown. *)
C3_Claim ==
    [][/\ (route = "pin" /\ route' = "invoice")
            => <<search'.invoiceId, search'.pin>> \in answered
       /\ \A r \in getInFlight :
            (getInFlight' = getInFlight \ {r} /\ r.inst = inst
             /\ query'.error = "401")
            => (route' = "pin" /\ "pinError" \in Rendered')]_vars

(* C4: no getInvoice request carries a pin that does not match ^\d{6}$. *)
C4_Claim == \A r \in getInFlight : PinValid(r.pin)

(* C5: under paymentOption 'partial' an update request is sent only if
   0 < paymentAmount < the invoice amount. *)
C5_Claim ==
    [][\A r \in updInFlight' \ updInFlight :
          form.paymentOption = "partial"
          => /\ form.paymentAmount.kind = "number"
             /\ 0 < form.paymentAmount.v
             /\ form.paymentAmount.v < Cents(query.data.invoice_amount)]_vars

(* C6: the selected method is 'Credit Card' only if customer_cc_token is set
   and 'ACH' only if customer_ach_enabled is set, and no update request
   carries a method whose flag is off. *)
C6_Claim ==
    /\ (route = "invoice" /\ View = "form")
         => /\ form.paymentMethod = "Credit Card"
                  => query.data.customer_cc_token = 1
            /\ form.paymentMethod = "ACH"
                  => query.data.customer_ach_enabled = 1
    /\ \A r \in updInFlight :
         /\ r.paymentMethod = "Credit Card" => db.customer_cc_token = 1
         /\ r.paymentMethod = "ACH" => db.customer_ach_enabled = 1

(* C7: a step sends an update request only when the form's option and method
   are set, the request carries that method, and every constraint of the
   schema passes; a first submit of 'partial' with a non-positive amount
   sends nothing and leaves the amount field in error. *)
C7_ValidatedSubmit ==
    [][/\ \A r \in updInFlight' \ updInFlight :
            /\ form.paymentOption \in {"full", "partial", "dueDate"}
            /\ form.paymentMethod \in {"Credit Card", "ACH", "Check"}
            /\ r.paymentMethod = form.paymentMethod
            /\ form.paymentAmount.kind # "empty"
            /\ form.paymentOption = "partial"
                 => (form.paymentAmount.kind = "number"
                     /\ form.paymentAmount.v > 0)
            /\ form.additionalMessage <= 100
            /\ errors' = {}
       /\ (/\ ~isSubmitted /\ isSubmitted'
           /\ form.paymentOption = "partial"
           /\ form.paymentAmount.kind = "number"
           /\ form.paymentAmount.v <= 0)
            => (updInFlight' = updInFlight /\ "paymentAmount" \in errors')]_vars

\* 'partial' with -5.00 was submitted: the field is in error, nothing is sent
C7_Witness ==
    /\ route = "invoice"
    /\ isSubmitted
    /\ form.paymentOption = "partial"
    /\ form.paymentAmount = Num(-500)
    /\ form.paymentMethod = "Check"
    /\ "paymentAmountError" \in Rendered
    /\ updInFlight = {}

\* the card rate the confirmation screen prints, per mille
CardRatePerMille == 29

\* n thousandths of a cent, rounded half up to cents
RoundHalfUp(n) == (n + 500) \div 1000

(* C8 as claimed: ACH and Check carry no surcharge; the card surcharge is
   2.9% of the invoice amount rounded to cents, in the review total and in
   the PaymentResponse. *)
C8_Claim ==
    /\ (route = "invoice" /\ View = "form")
         => TotalDue(form.paymentMethod, query.data)
            = Cents(query.data.invoice_amount)
              + (IF form.paymentMethod = "Credit Card"
                 THEN RoundHalfUp(Cents(query.data.invoice_amount) * CardRatePerMille)
                 ELSE 0)
    /\ (route = "confirmation" /\ locState.paymentResult # NoResult)
         => LET res == locState.paymentResult
            IN /\ res.processingFee
                   = (IF res.paymentMethod = "Credit card on file"
                      THEN RoundHalfUp(Cents(db.invoice_amount) * CardRatePerMille)
                      ELSE 0)
               /\ res.totalAmount = Cents(db.invoice_amount) + res.processingFee

(* C8 as amended: ACH and Check carry no surcharge; the card surcharge is the
   cc_service_fee the backend sent with the invoice, and the total is the
   invoice amount plus that surcharge, in the review total and in the
   PaymentResponse. *)
C8_ServerFee ==
    /\ (route = "invoice" /\ View = "form")
         => TotalDue(form.paymentMethod, query.data)
            = Cents(query.data.invoice_amount)
              + (IF form.paymentMethod = "Credit Card"
                 THEN Cents(query.data.cc_service_fee) ELSE 0)
    /\ (route = "confirmation" /\ locState.paymentResult # NoResult)
         => LET res == locState.paymentResult
            IN /\ res.paymentAmount = Cents(db.invoice_amount)
               /\ res.processingFee
                   = (IF res.paymentMethod = "Credit card on file"
                      THEN Cents(db.cc_service_fee) ELSE 0)
               /\ res.totalAmount = res.paymentAmount + res.processingFee

\* 2500.00 paid by card with a fee of 72.50: total 2572.50
C8_Witness ==
    /\ route = "confirmation"
    /\ locState.paymentResult # NoResult
    /\ locState.paymentResult.paymentMethod = "Credit card on file"
    /\ locState.paymentResult.paymentAmount = 250000
    /\ locState.paymentResult.processingFee = 7250
    /\ locState.paymentResult.totalAmount = 257250

(* C9: when the update request of the mounted Invoice component fails, the
   route, location.state and the form values stay as they are, the mutation
   is no longer processing, and a submit button that was on screen is still
   on screen, now enabled. *)
C9_FailureKeepsReview ==
    [][\A r \in updInFlight :
          (FailedFor(r) /\ route = "invoice" /\ r.inst = inst)
          => /\ route' = "invoice"
             /\ locState' = locState
             /\ search' = search
             /\ form' = form
             /\ ~isProcessing'
             /\ "submit" \in Rendered => "submit" \in Rendered']_vars

\* a payment failed and the form is back, submit enabled
C9_Witness ==
    /\ route = "invoice"
    /\ mutation.status = "rejected"
    /\ lastPut.inst = inst
    /\ lastPut.outcome = "500"
    /\ form.paymentMethod # ""
    /\ "submit" \in Rendered
    /\ ~isProcessing

(* C10: once the update request of the mounted Invoice component has failed,
   the review screen shows a submission error. *)
C10_Claim ==
    (route = "invoice" /\ mutation.status = "rejected")
    => "submissionError" \in Rendered

(* C11: at most one update request is in flight, and while the mounted
   Invoice component has one outstanding its submit button is disabled. *)
C11_Claim ==
    /\ Cardinality(updInFlight) <= 1
    /\ (route = "invoice" /\ \E r \in updInFlight : r.inst = inst)
         => isProcessing

(* C12: at most one getInvoice request is in flight; requests of the same
   (invoiceId, pin) share one cache entry and count once. *)
C12_Claim == Cardinality({<<r.invoiceId, r.pin>> : r \in getInFlight}) <= 1

(* C13: the answer to an update request moves the workflow to the
   confirmation only if the Invoice component that sent the request is still
   the one on screen. *)
C13_Claim ==
    [][\A r \in updInFlight :
          (updInFlight' = updInFlight \ {r}
           /\ ~(route = "invoice" /\ r.inst = inst))
          => ~(route' = "confirmation" /\ locState' # locState)]_vars

(* C14: the review screen is never on display without an invoiceId and a pin
   in its URL, and no getInvoice request is sent without them. *)
C14_Claim ==
    /\ ~(route = "invoice" /\ (search.invoiceId = "" \/ search.pin = NoPin))
    /\ \A r \in getInFlight : r.invoiceId # "" /\ r.pin # NoPin

\* this step is the backend's 200 to update request r
SucceededFor(r) ==
    /\ updInFlight' = updInFlight \ {r}
    /\ lastPut'.inst = r.inst
    /\ lastPut'.outcome = "200"

(* C15 as claimed: the confirmation reached by a successful update carries
   the invoiceId and the pin the update request was sent with. *)
C15_Claim ==
    [][\A r \in updInFlight :
          SucceededFor(r)
          => /\ locState'.invoiceId = r.invoiceId
             /\ locState'.pin = r.pin]_vars

(* C15 as amended: the confirmation reached by a successful update carries
   the pin of the request and the hash_code of the invoice; Back to Invoice
   goes straight to the review screen with exactly the stored pair, and to
   the PIN screen only when one of the two is missing. *)
C15_BackReference ==
    [][/\ \A r \in updInFlight :
            SucceededFor(r)
            => /\ route' = "confirmation"
               /\ locState'.pin = r.pin
               /\ locState'.invoiceId = db.hash_code
       /\ (route = "confirmation" /\ route' = "invoice")
            => search' = [invoiceId |-> locState.invoiceId, pin |-> locState.pin]
       /\ (route = "confirmation" /\ route' = "pin")
            => (locState.invoiceId = "" \/ locState.pin = NoPin)]_vars

\* back on the review screen from the confirmation of a payment submitted
\* under invoiceId '1': the URL now holds the hash_code
C15_Witness ==
    /\ route = "invoice"
    /\ search = [invoiceId |-> KnownHash, pin |-> PinGood]
    /\ lastPut.outcome = "200"
    /\ KnownId \in {a[1] : a \in answered}

(* C16: location.state holds a payment result, and the confirmation shows
   one, only from the step in which an update request was answered 200, the
   result being the PaymentResponse built from the updated invoice; no other
   step creates or alters a result, it can only be dropped with the screen. *)
C16_ResultFromSuccess ==
    [][/\ locState'.paymentResult # locState.paymentResult
            => \/ locState'.paymentResult = NoResult
               \/ \E r \in updInFlight :
                     /\ SucceededFor(r)
                     /\ locState'.paymentResult
                          = PaymentResponse(r.paymentMethod, r.paymentDate, db')
                     /\ locState'.paymentResult.success
       /\ "paymentSummary" \in Rendered'
            => locState'.paymentResult # NoResult]_vars

\* the confirmation of a payment by check, no request left unanswered
C16_Witness ==
    /\ route = "confirmation"
    /\ "paymentSummary" \in Rendered
    /\ locState.paymentResult.paymentMethod = "Check"
    /\ locState.paymentResult.success
    /\ lastPut.outcome = "200"
    /\ updInFlight = {}

(* C17: the payment result that schedulePayment builds for an update request
   names the payment option and the payment method of the form the request
   was submitted from; for 'dueDate' the wording of schedulePayment is taken
   as well as that of processPayment. *)
C17_Claim ==
    [][\A r \in updInFlight' \ updInFlight :
          LET res == PaymentResponse(r.paymentMethod, r.paymentDate,
                                     Updated(db, r.paymentMethod, r.paymentDate))
          IN /\ res.paymentMethod = MethodLabel(form.paymentMethod)
             /\ \/ res.paymentOption = OptionLabel(form.paymentOption)
                \/ /\ form.paymentOption = "dueDate"
                   /\ res.paymentOption = "Payment on scheduled date"]_vars

(* C18: whether or not the loaded invoice already has a payment, the update
   request goes to the invoiceId of the URL and its body is the pin of the
   URL, the method of the form, today's date and the status 'Scheduled for
   payment': equal (invoiceId, pin, method, date) give the same request. *)
C18_SameShape ==
    [][\A r \in updInFlight' \ updInFlight :
          LET body == [pin |-> search.pin,
                       payment_method |-> form.paymentMethod,
                       payment_date |-> Today,
                       status |-> "Scheduled for payment"]
          IN /\ hasExistingPayment(query.data)
                  => (r.invoiceId = search.invoiceId /\ PutBody(r) = body)
             /\ ~hasExistingPayment(query.data)
                  => (r.invoiceId = search.invoiceId /\ PutBody(r) = body)]_vars

\* an update request is in flight for an invoice that was already scheduled
\* by ACH for a later day
C18_Witness ==
    /\ route = "invoice"
    /\ hasExistingPayment(query.data)
    /\ query.data.payment_method = "ACH"
    /\ query.data.payment_date # Today
    /\ \E r \in updInFlight : r.inst = inst /\ r.paymentMethod = "Check"

(* C19: under paymentOption 'full' or 'dueDate' the form passes the schema
   with the paymentAmount it holds exactly when it passes with no
   paymentAmount at all. *)
C19_Claim ==
    (route = "invoice" /\ form.paymentOption \in {"full", "dueDate"})
    => ((SchemaErrors(form) = {})
        = (SchemaErrors([form EXCEPT !.paymentAmount = Undefined]) = {}))

\* the invoice the backend holds, with every combination of a method or
\* none, a payment date or none, and a status
ScheduleVariants ==
    {[db EXCEPT !.payment_method = m, !.payment_date = d, !.status = st] :
        m \in {"", "ACH"},
        d \in {0, DueDate - 1, DueDate, DueDate + 1},
        st \in {"Open", "Pending", "Scheduled for payment"}}

\* the payment option C20 derives for an invoice that has a payment
DerivedOption(invoice) ==
    IF invoice.payment_date >= invoice.payment_due_date
       \/ invoice.status = "Scheduled for payment"
    THEN "dueDate" ELSE "full"

(* C20: when the invoice arrives on the review screen with a payment method
   and a payment date, the form's paymentOption becomes 'dueDate' if that
   date is on or after the due date or the status says scheduled, 'full'
   otherwise; without a method and a date the form stays empty.  The same
   holds of the pre-fill for every variant of the invoice's schedule. *)
C20_PreDerived ==
    [][(route = "invoice" /\ route' = "invoice"
        /\ query.data = NoInvoice /\ query'.data # NoInvoice)
       => /\ IF query'.data.payment_method # "" /\ query'.data.payment_date # 0
             THEN form'.paymentOption = DerivedOption(query'.data)
             ELSE form' = EmptyForm
          /\ \A invoice \in ScheduleVariants :
               IF invoice.payment_method # "" /\ invoice.payment_date # 0
               THEN PreFill(EmptyForm, invoice).paymentOption
                    = DerivedOption(invoice)
               ELSE PreFill(EmptyForm, invoice) = EmptyForm]_vars

\* the invoice paid by card a day before it was due arrived: the form shows
\* 'full' with the card, untouched by the user
C20_Witness ==
    /\ route = "invoice"
    /\ query.data # NoInvoice
    /\ query.data.payment_method = "Credit Card"
    /\ query.data.payment_date < query.data.payment_due_date
    /\ query.data.status = "Pending"
    /\ form = [EmptyForm EXCEPT !.paymentOption = "full",
                                !.paymentMethod = "Credit Card"]
    /\ ~isSubmitted

(* C21: on the review form a payment method is set only if a payment option
   is set, and the method radios are on screen only once an option is
   chosen. *)
C21_MethodNeedsOption ==
    route = "invoice"
    => /\ form.paymentMethod # "" => form.paymentOption # ""
       /\ "paymentMethod" \in Rendered => form.paymentOption # ""

\* the invoice scheduled by ACH arrived: the pre-fill set the method together
\* with the option
C21_Witness ==
    /\ route = "invoice"
    /\ View = "form"
    /\ form = [EmptyForm EXCEPT !.paymentOption = "dueDate",
                                !.paymentMethod = "ACH"]
    /\ ~isSubmitted
    /\ "paymentMethod" \in Rendered

(* C22: a step sends at most one update request, and only as the submit of
   the review form on screen, whose hook is not processing and whose values
   pass the resolver, never in the step that handles an answer; and when
   the mounted component's request fails, the request is gone and nothing
   is sent in its place. *)
C22_NoAutoRetry ==
    [][/\ Cardinality(updInFlight' \ updInFlight) <= 1
       /\ updInFlight' \ updInFlight # {}
            => /\ route = "invoice" /\ View = "form"
               /\ ~isProcessing
               /\ isSubmitted' /\ errors' = {}
               /\ updInFlight \subseteq updInFlight'
               /\ lastPut' = lastPut
               /\ form' = form
       /\ (route = "invoice" /\ route' = "invoice"
           /\ mutation.status = "pending" /\ mutation'.status = "rejected")
            => \E r \in updInFlight :
                  /\ r.inst = inst
                  /\ updInFlight' = updInFlight \ {r}]_vars

\* the payment could not reach the backend: the hook is rejected and no
\* update request is outstanding
C22_Witness ==
    /\ route = "invoice"
    /\ mutation = [status |-> "rejected", error |-> "FETCH_ERROR"]
    /\ lastPut = [inst |-> inst, outcome |-> "FETCH_ERROR"]
    /\ updInFlight = {}

(* C24: the update request a submit sends is the one it would send from the
   same form with any other payment option, partial amount and message, and
   the PaymentResponse of a successful update carries the full invoice
   amount as paymentAmount. *)
C24_OptionBlind ==
    [][/\ \A r \in updInFlight' \ updInFlight :
            \A o \in PaymentOptions, a \in TypedAmounts \cup {Undefined},
               n \in MessageLengths :
               UpdateRequest([form EXCEPT !.paymentOption = o,
                                          !.paymentAmount = a,
                                          !.additionalMessage = n]) = r
       /\ \A r \in updInFlight :
            SucceededFor(r)
            => locState'.paymentResult.paymentAmount
               = Cents(db'.invoice_amount)]_vars

\* a partial payment of 5.00 with a message was submitted and is in flight
C24_Witness ==
    /\ route = "invoice"
    /\ form.paymentOption = "partial"
    /\ form.paymentAmount = Num(500)
    /\ form.additionalMessage = 100
    /\ \E r \in updInFlight : r.inst = inst /\ r.paymentMethod = form.paymentMethod

(* C25 as claimed: once the mounted Invoice component is processing a
   payment, the workflow comes to the confirmation with its result, or to
   the review form with the submit button on screen and enabled. *)
C25_Claim ==
    (route = "invoice" /\ isProcessing)
    ~> (\/ route = "confirmation" /\ locState.paymentResult # NoResult
        \/ route = "invoice" /\ ~isProcessing /\ "submit" \in Rendered)

(* C25 as amended: once the mounted Invoice component is processing a
   payment, the workflow comes to the confirmation with its result, or the
   request fails and the component, still on screen, is no longer
   processing, or the user has left the review screen for the PIN screen. *)
C25_Completes ==
    (route = "invoice" /\ isProcessing)
    ~> (\/ route = "confirmation" /\ locState.paymentResult # NoResult
        \/ route = "invoice" /\ mutation.status = "rejected" /\ ~isProcessing
        \/ route = "pin")

\* the user went back to the PIN screen during a payment, which then failed
C25_Witness ==
    /\ route = "pin"
    /\ lastPut.inst = inst
    /\ lastPut.outcome = "500"
    /\ updInFlight = {}
    /\ getInFlight = {}

(* ====================== the in-memory stand-in api ====================== *)
(* The api built on mockInvoices: getInvoice and processPayment answer from *)
(* the array in memory.  It is exercised on its own: search holds the       *)
(* arguments of the last getInvoice and query its result; form and          *)
(* locState.invoiceId hold the arguments of the last processPayment,        *)
(* mutation and locState.paymentResult its result.  Its PaymentResponse     *)
(* holds money in thousandths of a cent, so that amount * 0.029 is exact.   *)

\* 0.029, in thousandths
MockRate == 29

mockInvoices ==
    { [id |-> "1", customer |-> "Acme Corporation",
       invoiceNumber |-> "INV-2023-0042", outstandingBalance |-> 235000,
       pin |-> <<"1", "2", "3", "4", "5", "6">>],
      [id |-> "2", customer |-> "Globex Industries",
       invoiceNumber |-> "INV-2023-0055", outstandingBalance |-> 350000,
       pin |-> <<"6", "5", "4", "3", "2", "1">>],
      [id |-> "3", customer |-> "Wayne Enterprises",
       invoiceNumber |-> "INV-2023-0061", outstandingBalance |-> 450000,
       pin |-> <<"9", "8", "7", "6", "5", "4">>] }

\* mockInvoices.find((inv) => inv.id === invoiceId)
MockFind(invoiceId) ==
    IF \E inv \in mockInvoices : inv.id = invoiceId
    THEN CHOOSE inv \in mockInvoices : inv.id = invoiceId
    ELSE NoInvoice

\* as MockGetInvoice, handing the invoice out whatever the pin
MockGetInvoiceAnyPin(invoiceId, pin) ==
    [data |-> MockFind(invoiceId), error |-> ""]

\* queryFn of the stand-in getInvoice
MockGetInvoice(invoiceId, pin) ==
    LET invoice == MockFind(invoiceId)
    IN IF invoice = NoInvoice THEN [data |-> NoInvoice, error |-> ""]
       ELSE IF invoice.pin # pin THEN [data |-> NoInvoice, error |-> "401"]
       ELSE [data |-> invoice, error |-> ""]

MockMethods == {"creditCard", "ach", "check"}

MockMethodLabel(paymentMethod) ==
    IF paymentMethod = "creditCard" THEN "Credit card on file"
    ELSE IF paymentMethod = "ach" THEN "ACH on file"
    ELSE "Check"

\* paymentAmount || 0, in cents
OrZero(paymentAmount) ==
    IF paymentAmount.kind = "number" THEN paymentAmount.v ELSE 0

\* queryFn of processPayment
processPayment(invoiceId, paymentOption, paymentMethod, paymentAmount) ==
    LET invoice == MockFind(invoiceId)
        amount == IF paymentOption = "full" THEN invoice.outstandingBalance
                  ELSE IF paymentOption = "partial" THEN OrZero(paymentAmount)
                  ELSE invoice.outstandingBalance
        processingFee == IF paymentMethod = "creditCard"
                         THEN amount * MockRate ELSE 0
    IN IF invoice = NoInvoice
       THEN [data |-> NoResult, error |-> "404"]
       ELSE [data |-> [invoiceNumber |-> invoice.invoiceNumber,
                       customer |-> invoice.customer,
                       paymentOption |-> OptionLabel(paymentOption),
                       paymentMethod |-> MockMethodLabel(paymentMethod),
                       paymentAmount |-> amount * 1000,
                       processingFee |-> processingFee,
                       totalAmount |-> amount * 1000 + processingFee,
                       success |-> TRUE],
             error |-> ""]

\* arguments the stand-in api is called with
MockIds == {"1", "2", "3", UnknownId}
MockPins == {PinGood, <<"6", "5", "4", "3", "2", "1">>, PinWrong, NoPin}
MockAmounts == {Undefined, Num(500), Num(10010), Num(235000)}

MockInit ==
    /\ route = "invoice"
    /\ search = [invoiceId |-> "", pin |-> NoPin]
    /\ locState = NoState
    /\ inst = 1
    /\ query = IdleQuery
    /\ getInFlight = {}
    /\ form = EmptyForm
    /\ errors = {}
    /\ isSubmitted = FALSE
    /\ updInFlight = {}
    /\ mutation = Uninitialized
    /\ pinError = FALSE
    /\ db = NoInvoice
    /\ answered = {}
    /\ lastPut = NoPut
    /\ backEntry = NoEntry

\* useGetInvoiceQuery({invoiceId, pin}) against the stand-in, answered
CallGetInvoice ==
    /\ \E invoiceId \in MockIds, pin \in MockPins :
          /\ search' = [invoiceId |-> invoiceId, pin |-> pin]
          /\ query' = [data |-> MockGetInvoice(invoiceId, pin).data,
                       error |-> MockGetInvoice(invoiceId, pin).error,
                       isFetching |-> FALSE, settled |-> TRUE]
    /\ UNCHANGED <<route, locState, inst, getInFlight, form, errors,
                   isSubmitted, updInFlight, mutation, pinError, db, answered,
                   lastPut, backEntry>>

\* processPayment(...) against the stand-in, answered
CallProcessPayment ==
    /\ \E invoiceId \in MockIds, o \in PaymentOptions, m \in MockMethods,
          a \in MockAmounts :
          LET res == processPayment(invoiceId, o, m, a)
          IN /\ form' = [paymentOption |-> o, paymentAmount |-> a,
                         paymentMethod |-> m, additionalMessage |-> 0]
             /\ locState' = [paymentResult |-> res.data, pin |-> NoPin,
                             invoiceId |-> invoiceId]
             /\ mutation' = IF res.error = ""
                            THEN [status |-> "fulfilled", error |-> ""]
                            ELSE [status |-> "rejected", error |-> res.error]
    /\ UNCHANGED <<route, search, inst, query, getInFlight, errors,
                   isSubmitted, updInFlight, pinError, db, answered, lastPut,
                   backEntry>>

MockNext == CallGetInvoice \/ CallProcessPayment

MockSpec == MockInit /\ [][MockNext]_vars

(* C23: in every PaymentResponse of the stand-in api the processing fee and
   the total are whole numbers of cents, the fee of a card payment being
   2.9% of the amount paid rounded half-up to the cent (nothing for the
   other methods) and the total the amount plus the fee. *)
C23_Claim ==
    locState.paymentResult # NoResult
    => LET res == locState.paymentResult
           cents == res.paymentAmount \div 1000
       IN /\ res.processingFee % 1000 = 0
          /\ res.totalAmount % 1000 = 0
          /\ res.processingFee
               = (IF res.paymentMethod = "Credit card on file"
                  THEN 1000 * RoundHalfUp(cents * CardRatePerMille) ELSE 0)
          /\ res.totalAmount = res.paymentAmount + res.processingFee

(* C26: the stand-in getInvoice hands out an invoice only for the id and pin
   of one of the three mock invoices, answers 401 exactly when the id is one
   of theirs and the pin is not its pin, and gives neither data nor error
   for any other id; processPayment, which has no pin among its arguments,
   answers every one of the three ids with a successful PaymentResponse and
   any other id with 404. *)
C26_StandIn ==
    LET pins == [i \in {"1", "2", "3"} |->
                    IF i = "1" THEN <<"1", "2", "3", "4", "5", "6">>
                    ELSE IF i = "2" THEN <<"6", "5", "4", "3", "2", "1">>
                    ELSE <<"9", "8", "7", "6", "5", "4">>]
        known(i) == i \in {"1", "2", "3"}
    IN /\ query.settled
            => /\ query.data # NoInvoice
                    <=> (known(search.invoiceId)
                         /\ search.pin = pins[search.invoiceId])
               /\ query.data # NoInvoice
                    => (query.data.id = search.invoiceId /\ query.error = "")
               /\ query.error = "401"
                    <=> (known(search.invoiceId)
                         /\ search.pin # pins[search.invoiceId])
               /\ ~known(search.invoiceId)
                    => (query.data = NoInvoice /\ query.error = "")
       /\ mutation.status # "uninitialized"
            => /\ known(locState.invoiceId)
                    <=> (/\ mutation.status = "fulfilled"
                         /\ locState.paymentResult # NoResult
                         /\ locState.paymentResult.success)
               /\ ~known(locState.invoiceId)
                    <=> (/\ mutation = [status |-> "rejected", error |-> "404"]
                         /\ locState.paymentResult = NoResult)

\* invoice '1' was refused to a wrong pin, and a payment for it went through
\* with no pin given
C26_Witness ==
    /\ search = [invoiceId |-> "1", pin |-> PinWrong]
    /\ query.settled
    /\ query.data = NoInvoice
    /\ query.error = "401"
    /\ locState.invoiceId = "1"
    /\ mutation.status = "fulfilled"
    /\ locState.paymentResult.success

====
